---- MODULE Spec2Model ----
(***************************************************************************)
(* Type hierarchy tree of vscode-references-view: src/types/model.ts       *)
(* (TypesTreeInput, TypeItem, TypesModel, TypeItemDataProvider) and        *)
(* src/types/index.ts (showTypeHierarchy, setTypesView).                   *)
(*                                                                         *)
(* TypeItem objects live in the arena `nodes`; a TypeItem reference is its *)
(* index, 0 stands for undefined.  `children?: TypeItem[]` is the pair     *)
(* (resolved, children): resolved = FALSE is `children === undefined`.     *)
(* Every await on the external query service is a record of `calls`; the   *)
(* code before the await is the calling action, the code after it is       *)
(* Complete (the promise resolves) or Fail (it rejects).                   *)
(***************************************************************************)
EXTENDS Integers, Sequences, FiniteSets, TLC

\* ------------------------------------------------------------------ bounds
MaxRoots == 2        \* longest result of typeHierarchy.prepare
MaxAnswerLen == 2    \* longest result of typeHierarchy.supertypes / subtypes
MaxNodes == 3        \* TypeItem objects ever constructed
MaxCalls == 2        \* queries in flight at once
MaxPrepares == 1     \* typeHierarchy.prepare queries in flight at once

\* ------------------------------------------------------ TypeHierarchyItem
\* vscode.SymbolKind values the code compares against.
Class == 4
Interface == 10

\* The items the external service can report: kind and name of each.
ItemKind == <<Class, Class, Interface>>
ItemName == << <<1>>, <<2>>, <<9>> >>
Items == DOMAIN ItemKind

\* TypeHierarchyItem.uri, a string, and TypeHierarchyItem.selectionRange of the items
ItemUri == <<"file:///a", "file:///a", "file:///b">>
ItemSelectionRange == <<"range1", "range2", "range3">>

\* The vscode.Uri objects the editors hold: an object is a reference and what it denotes
Uris == {[ref |-> 1, value |-> "file:///a"], [ref |-> 2, value |-> "file:///b"]}

\* vscode.Uri.parse(value): a new Uri object, one that is none of the existing ones
UriParse(value) ==
    [ref |-> 1 + Cardinality(Uris), value |-> value]

\* a === b on objects: the same reference
strictEquals(a, b) == a.ref = b.ref

SeqsUpTo(S, n) == UNION {[1..k -> S] : k \in 0..n}
SeqToSet(s) == {s[i] : i \in DOMAIN s}

\* ------------------------------------------------------------ JS helpers
\* Array.prototype.includes
includes(array, e) == \E i \in DOMAIN array : array[i] = e

\* Array.prototype.indexOf, 0-based, -1 when absent
indexOf(array, e) ==
    IF includes(array, e)
    THEN (CHOOSE i \in DOMAIN array : array[i] = e /\ \A j \in 1..(i - 1) : array[j] # e) - 1
    ELSE -1

\* array[i] with a 0-based index: undefined (0) outside the array
at(array, i) == IF i >= 0 /\ i < Len(array) THEN array[i + 1] ELSE 0

\* utils.tail: the last element
tail(array) == at(array, Len(array) - 1)

\* utils.del: splice out the first occurrence, if any
del(array, e) ==
    LET idx == indexOf(array, e) IN
    IF idx >= 0
    THEN [i \in 1..(Len(array) - 1) |-> IF i <= idx THEN array[i] ELSE array[i + 1]]
    ELSE array

\* Number.prototype.toString: the decimal digits
RECURSIVE toString(_)
toString(n) == IF n < 10 THEN <<n>> ELSE toString(n \div 10) \o <<n % 10>>

\* String.prototype.localeCompare on digit strings and on the names of
\* ItemName: -1, 0 or 1 by the first differing position, a prefix first
RECURSIVE localeCompare(_, _)
localeCompare(s, t) ==
    IF s = <<>> /\ t = <<>> THEN 0
    ELSE IF s = <<>> THEN -1
    ELSE IF t = <<>> THEN 1
    ELSE IF Head(s) < Head(t) THEN -1
    ELSE IF Head(s) > Head(t) THEN 1
    ELSE localeCompare(Tail(s), Tail(t))

\* A comparator that takes the kinds as numbers, the greater first
compareTypesByNumber(a, b) ==
    IF ItemKind[a] = ItemKind[b]
    THEN localeCompare(ItemName[a], ItemName[b])
    ELSE IF ItemKind[b] < ItemKind[a] THEN -1 ELSE 1

\* The comparator of _resolveTypes
compareTypes(a, b) ==
    IF toString(ItemKind[a]) = toString(ItemKind[b])
    THEN localeCompare(ItemName[a], ItemName[b])
    ELSE localeCompare(toString(ItemKind[b]), toString(ItemKind[a]))

\* Array.prototype.sort with that comparator: stable
RECURSIVE insertSorted(_, _)
insertSorted(sorted, x) ==
    IF sorted = <<>> THEN <<x>>
    ELSE IF compareTypes(x, sorted[Len(sorted)]) < 0
         THEN insertSorted(SubSeq(sorted, 1, Len(sorted) - 1), x) \o <<sorted[Len(sorted)]>>
         ELSE sorted \o <<x>>

RECURSIVE sort(_)
sort(types) ==
    IF types = <<>> THEN <<>>
    ELSE insertSorted(sort(SubSeq(types, 1, Len(types) - 1)), types[Len(types)])

\* ------------------------------------------------------------------ state
VARIABLES
    nodes,            \* the TypeItem objects: [model, item, parent, resolved, children, expand]
                      \* and, as history, answered / lastResult (a getChildren call on the
                      \* node has returned, and the array it returned) and made (the parent
                      \* the constructor was given; -1 for one getClassViewRoot constructed)
                      \* and removed (the items of the children remove has deleted)
    roots,            \* TypesModel.roots of the current model
    view,             \* TypesModel.view of the current model
    modelId,          \* the current TypesModel; 0: none
    prefetch,         \* TypeItemDataProvider.prefetch
    disposed,         \* the current provider has been disposed
    calls,            \* awaits on typeHierarchy.supertypes / subtypes
    superclass,       \* the service: the types it knows (the domain) and, per type, the
                      \* first class-kind entry of its typeHierarchy.supertypes answer as
                      \* far as getClassViewRoot has asked (-1: not asked, 0: none); a
                      \* question asked again is answered with the same one
    shown,            \* the elements the tree has been handed
    last,             \* the step just taken: entry point, argument, result, events fired
    ctxView,          \* TypeHierarchyContext.view
    classViewSupport, \* TypeHierarchyContext.classViewSupport
    input,            \* the tree's input (tree.setInput)
    prepares,         \* awaits on typeHierarchy.prepare
    sink              \* the display sink: the elements whose change signal it has still to
                      \* answer (refresh), the elements it has found expanded and has
                      \* still to call getChildren on (expand)

vars == <<nodes, roots, view, modelId, prefetch, disposed, calls, superclass,
          shown, last, ctxView, classViewSupport, input, prepares, sink>>

modelVars == <<nodes, roots, view, modelId, prefetch, disposed, calls, superclass, shown>>
ctlVars == <<ctxView, classViewSupport, input, prepares>>

Views == {"Supertype", "Subtype", "Class"}

\* new TypeItem(model, item, parent)
TypeItem(model, item, parent) ==
    [model |-> model, item |-> item, parent |-> parent, resolved |-> FALSE,
     children |-> <<>>, expand |-> FALSE, answered |-> FALSE, lastResult |-> <<>>,
     made |-> parent, removed |-> {}]

\* The record of a step.
Step(op, node, phase) ==
    [op |-> op, node |-> node, phase |-> phase, value |-> <<>>, threw |-> FALSE,
     hit |-> FALSE, outcome |-> "none", state |-> "", fired |-> <<>>, emitted |-> <<>>,
     steps |-> 0, answer |-> <<>>, before |-> <<>>, alone |-> FALSE, uri |-> <<>>]

\* The answers of the service: absent (undefined), or types it knows
Answers ==
    {[absent |-> TRUE, items |-> <<>>]}
    \cup {[absent |-> FALSE, items |-> s] : s \in SeqsUpTo(DOMAIN superclass, MaxAnswerLen)}

\* new TypesModel(view, items): one parentless TypeItem per item
NewRoots(model, items) ==
    [i \in 1..Len(items) |-> TypeItem(model, items[i], 0)]

RootInputs(W) == SeqsUpTo(W, MaxRoots) \ {<<>>}

NoInterface(items) == \A i \in DOMAIN items : ItemKind[items[i]] # Interface

\* A display sink that has not asked for anything yet
NoSink == [started |-> FALSE, refresh |-> {}, expand |-> {}]

\* The state after TypesTreeInput.resolve() has built a model and a provider
\* from a non-empty prepare result, in a view of V, the service knowing the types W
InitWith(V, W, P) ==
    \E items \in RootInputs(W), v \in V, p \in P :
        /\ nodes = NewRoots(1, items)
        /\ roots = [i \in 1..Len(items) |-> i]
        /\ view = v
        /\ modelId = 1
        /\ prefetch = p
        /\ disposed = FALSE
        /\ calls = <<>>
        /\ superclass = [i \in W |-> -1]
        /\ shown = {}
        /\ last = Step("resolve", 0, "return")
        /\ ctxView = v
        /\ classViewSupport = NoInterface(items)
        /\ input = [set |-> TRUE, items |-> items]
        /\ prepares = <<>>
        /\ sink = NoSink

\* ------------------------------------------------------------ TypesModel
\* The provider of this model is the tree's current one and is not disposed
Live(model) == model = modelId /\ ~disposed

RemoveAt(s, i) == [k \in 1..(Len(s) - 1) |-> IF k < i THEN s[k] ELSE s[k + 1]]

\* A cache that answers only when it holds children
cachedNonEmpty(type) == nodes[type].resolved /\ Len(nodes[type].children) > 0

\* getTypeChildren: `!type.children` is false, the cache answers
cached(type) == nodes[type].resolved

\* _resolveTypes: the query the view selects
direction(v) == IF v = "Supertype" THEN "supertypes" ELSE "subtypes"

\* The await of a query
Call(op, node, start, dir, steps) ==
    [op |-> op, node |-> node, start |-> start, dir |-> dir, steps |-> steps]

\* The awaits are independent of one another: `calls` lists them by node, then by
\* entry point, whatever the order they were issued in
CallKey(c) ==
    4 * c.node + (IF c.op = "getChildren" THEN 0 ELSE IF c.op = "getTreeItem" THEN 1 ELSE 2)

Await(pending, c) ==
    LET k == Cardinality({j \in DOMAIN pending : CallKey(pending[j]) <= CallKey(c)})
    IN  SubSeq(pending, 1, k) \o <<c>> \o SubSeq(pending, k + 1, Len(pending))

\* _move: the index expression of the sibling step
moveIndex(idx, delta, length) == idx + delta + (length % length)

\* A step that looks at the siblings only, never at the children
_moveAmongSiblings(item, fwd) ==
    LET n == nodes[item]
        inRoots == includes(roots, item)
        hasArray == inRoots \/ (n.parent # 0 /\ nodes[n.parent].resolved)
        array == IF inRoots THEN roots
                 ELSE IF hasArray THEN nodes[n.parent].children ELSE <<>>
    IN IF Len(array) > 0
       THEN at(array, moveIndex(indexOf(array, item), IF fwd THEN 1 ELSE -1, Len(array)))
       ELSE 0

\* _move(item, fwd): a TypeItem, or undefined (0)
_move(item, fwd) ==
    LET n == nodes[item] IN
    IF n.resolved /\ Len(n.children) > 0
    THEN (IF fwd THEN n.children[1] ELSE tail(n.children))
    ELSE LET inRoots == includes(roots, item)
             hasArray == inRoots \/ (n.parent # 0 /\ nodes[n.parent].resolved)
             array == IF inRoots THEN roots
                      ELSE IF hasArray THEN nodes[n.parent].children ELSE <<>>
         IN IF Len(array) > 0
            THEN at(array, moveIndex(indexOf(array, item), IF fwd THEN 1 ELSE -1, Len(array)))
            ELSE 0

\* next(from), previous(from): `_move(...) ?? from`
next(from) == IF _move(from, TRUE) # 0 THEN _move(from, TRUE) ELSE from
previous(from) == IF _move(from, FALSE) # 0 THEN _move(from, FALSE) ELSE from

\* A payload that names the removed item
removePayloadItem(item) == [isItem |-> TRUE, node |-> item]

\* getEditorHighlights(item, uri)
getEditorHighlights(item, uri) ==
    IF strictEquals(UriParse(ItemUri[nodes[item].item]), uri)
    THEN <<ItemSelectionRange[nodes[item].item]>>
    ELSE <<>>

\* The payload of TypesModel._onDidChange in remove(item): `this`, the model
removePayload(item) == [isItem |-> FALSE, node |-> 0]

\* The provider's listener on the model: `e instanceof TypeItem ? e : undefined`
modelListener(e) == IF e.isItem THEN e.node ELSE 0

\* remove: the sibling array is roots, or item.parent?.children
isInRoot(item) == includes(roots, item)
hasSiblings(item) ==
    isInRoot(item) \/ (nodes[item].parent # 0 /\ nodes[nodes[item].parent].resolved)

\* ------------------------------------------------- TypeItemDataProvider
\* A collapsible state that takes children never queried for no children
collapsibleStateOfLength(element) ==
    IF (view = "Class" /\ nodes[element].expand) \/ includes(roots, element) THEN "Expanded"
    ELSE IF Len(nodes[element].children) = 0 THEN "None"
    ELSE IF ~prefetch THEN "Collapsed"
    ELSE "await"

\* getTreeItem: the collapsible state, or "await" where getChildren is awaited
collapsibleState(element) ==
    IF (view = "Class" /\ nodes[element].expand) \/ includes(roots, element) THEN "Expanded"
    ELSE IF nodes[element].resolved /\ Len(nodes[element].children) = 0 THEN "None"
    ELSE IF ~prefetch THEN "Collapsed"
    ELSE "await"

\* A signal for every element, whatever children it has
emitsAlways(element, children) == IF element # 0 THEN <<element>> ELSE <<>>

\* getChildren: `if (element && children.length === 0) this._emitter.fire(element)`;
\* the elements the emitter is fired with
emits(element, children) ==
    IF element # 0 /\ Len(children) = 0 THEN <<element>> ELSE <<>>

\* The first entry of supertypes whatever its kind, 0 when there is none
firstItem(items) == IF Len(items) > 0 THEN items[1] ELSE 0

\* getClassViewRoot: the first class-kind entry of supertypes, 0 when there is none
firstClassItem(items) ==
    IF \E i \in DOMAIN items : ItemKind[items[i]] = Class
    THEN items[CHOOSE i \in DOMAIN items :
            /\ ItemKind[items[i]] = Class
            /\ \A j \in 1..(i - 1) : ItemKind[items[j]] # Class]
    ELSE 0

\* The service's side of it: the first class-kind type of answer a, 0 when none
superclassIn(a) ==
    IF a.absent \/ \A i \in DOMAIN a.items : ItemKind[a.items[i]] # Class THEN 0
    ELSE a.items[CHOOSE i \in DOMAIN a.items :
            /\ ItemKind[a.items[i]] = Class
            /\ \A j \in DOMAIN a.items : j < i => ItemKind[a.items[j]] # Class]

\* A climb that stops at the first node
climbsNever(supertype) == FALSE

\* getClassViewRoot: a class-kind supertype was found, the climb goes on from it
climbs(supertype) == supertype # 0

\* What the service answers getClassViewRoot for item
AnswersOf(item) ==
    {a \in Answers : superclass[item] = -1 \/ superclassIn(a) = superclass[item]}

\* getChildren: the first class-kind root, 0 when there is none
firstClassRoot ==
    IF \E i \in DOMAIN roots : ItemKind[nodes[roots[i]].item] = Class
    THEN roots[CHOOSE i \in DOMAIN roots :
            /\ ItemKind[nodes[roots[i]].item] = Class
            /\ \A j \in 1..(i - 1) : ItemKind[nodes[roots[j]].item] # Class]
    ELSE 0

\* getChildren(): the top-level call
GetChildrenTop ==
    /\ ~disposed /\ modelId # 0
    /\ IF view = "Class"
       THEN IF firstClassRoot # 0
            THEN \* getClassViewRoot(root): expand is set, supertypes is awaited
                 /\ Len(calls) < MaxCalls
                 /\ nodes' = [nodes EXCEPT ![firstClassRoot].expand = TRUE]
                 /\ calls' = Await(calls, Call("getClassViewRoot", firstClassRoot,
                                               firstClassRoot, "supertypes", 1))
                 /\ last' = Step("getClassViewRoot", firstClassRoot, "await")
                 /\ UNCHANGED shown
            ELSE /\ last' = Step("getChildren", 0, "return")
                 /\ UNCHANGED <<nodes, calls, shown>>
       ELSE /\ last' = [Step("getChildren", 0, "return") EXCEPT
                          !.value = roots,
                          !.emitted = emits(0, roots)]
            /\ shown' = shown \cup SeqToSet(roots)
            /\ UNCHANGED <<nodes, calls>>
    /\ UNCHANGED <<roots, view, modelId, prefetch, disposed, superclass>>
    /\ UNCHANGED ctlVars

\* getChildren(element): getTypeChildren answers from the cache or awaits the query
GetChildren(element) ==
    /\ ~disposed /\ element \in shown
    /\ IF cached(element)
       THEN /\ last' = [Step("getChildren", element, "return") EXCEPT
                          !.value = nodes[element].children,
                          !.hit = TRUE,
                          !.emitted = emits(element, nodes[element].children)]
            /\ shown' = shown \cup SeqToSet(nodes[element].children)
            /\ nodes' = [nodes EXCEPT ![element].answered = TRUE,
                                      ![element].lastResult = nodes[element].children]
            /\ UNCHANGED calls
       ELSE /\ Len(calls) < MaxCalls
            /\ calls' = Await(calls, Call("getChildren", element, element, direction(view), 1))
            /\ last' = Step("getChildren", element, "await")
            /\ UNCHANGED <<nodes, shown>>
    /\ UNCHANGED <<roots, view, modelId, prefetch, disposed, superclass>>
    /\ UNCHANGED ctlVars

\* getTreeItem(element)
GetTreeItem(element) ==
    /\ ~disposed /\ element \in shown
    /\ IF collapsibleState(element) # "await"
       THEN /\ last' = [Step("getTreeItem", element, "return") EXCEPT
                          !.state = collapsibleState(element)]
            /\ UNCHANGED <<nodes, calls>>
       ELSE IF cached(element)
            THEN \* getChildren returns the cached, non-empty array
                 /\ last' = [Step("getTreeItem", element, "return") EXCEPT
                               !.value = nodes[element].children,
                               !.hit = TRUE,
                               !.emitted = emits(element, nodes[element].children),
                               !.state = "Collapsed"]
                 /\ nodes' = [nodes EXCEPT ![element].answered = TRUE,
                                           ![element].lastResult = nodes[element].children]
                 /\ UNCHANGED calls
            ELSE /\ Len(calls) < MaxCalls
                 /\ calls' = Await(calls, Call("getTreeItem", element, element,
                                               direction(view), 1))
                 /\ last' = Step("getTreeItem", element, "await")
                 /\ UNCHANGED nodes
    /\ UNCHANGED <<roots, view, modelId, prefetch, disposed, superclass, shown>>
    /\ UNCHANGED ctlVars

\* _resolveTypes resumes with answer a; getTypeChildren caches what it returns;
\* getChildren fires the emitter for an empty result; getTreeItem assigns and
\* derives the state
ResolveDone(i, a) ==
    LET c == calls[i]
        type == c.node
        types == IF a.absent THEN <<>> ELSE sort(a.items)
        base == Len(nodes)
        children == [k \in 1..Len(types) |-> base + k]
        created == [k \in 1..Len(types) |-> TypeItem(nodes[type].model, types[k], type)]
        live == Live(nodes[type].model)
    IN  /\ base + Len(types) <= MaxNodes
        /\ nodes' = [nodes EXCEPT ![type].resolved = TRUE,
                                  ![type].children = children,
                                  ![type].answered = TRUE,
                                  ![type].lastResult = children] \o created
        /\ calls' = RemoveAt(calls, i)
        /\ shown' = IF c.op = "getChildren" /\ live
                    THEN shown \cup SeqToSet(children) ELSE shown
        /\ last' = [Step(c.op, type, "resume") EXCEPT
                      !.value = children,
                      !.outcome = IF a.absent THEN "absent" ELSE "answer",
                      !.emitted = emits(type, children),
                      !.state = IF c.op # "getTreeItem" THEN ""
                                ELSE IF Len(children) > 0 THEN "Collapsed" ELSE "None"]

\* getClassViewRoot resumes with answer a: it returns rootClass, or puts a new
\* parentless TypeItem above it and awaits that one's supertypes
ClassRootDone(i, a) ==
    LET c == calls[i]
        rootClass == c.node
        supertype == IF a.absent \/ Len(a.items) = 0 THEN 0 ELSE firstClassItem(a.items)
        parentItem == Len(nodes) + 1
    IN  IF ~climbs(supertype)
        THEN /\ calls' = RemoveAt(calls, i)
             /\ shown' = IF Live(nodes[rootClass].model)
                         THEN shown \cup {rootClass} ELSE shown
             /\ last' = [Step("getClassViewRoot", c.start, "resume") EXCEPT
                           !.value = <<rootClass>>,
                           !.outcome = IF a.absent THEN "absent" ELSE "answer",
                           !.steps = c.steps,
                           !.answer = a.items]
             /\ UNCHANGED nodes
        ELSE /\ Len(nodes) < MaxNodes
             /\ nodes' = [nodes EXCEPT ![rootClass].parent = parentItem]
                         \o <<[TypeItem(nodes[rootClass].model, supertype, 0) EXCEPT
                                 !.resolved = TRUE,
                                 !.children = <<rootClass>>,
                                 !.expand = TRUE,
                                 !.made = -1]>>
             /\ calls' = Await(RemoveAt(calls, i), Call("getClassViewRoot", parentItem, c.start,
                                                        "supertypes", c.steps + 1))
             /\ last' = [Step("getClassViewRoot", c.start, "await") EXCEPT
                           !.value = <<parentItem>>,
                           !.outcome = "answer",
                           !.steps = c.steps,
                           !.answer = a.items]
             /\ UNCHANGED shown

\* The service answers the query of calls[i]
Complete(i) ==
    /\ i \in DOMAIN calls
    /\ IF calls[i].op = "getClassViewRoot"
       THEN \E a \in AnswersOf(nodes[calls[i].node].item) :
                /\ ClassRootDone(i, a)
                /\ superclass' = [superclass EXCEPT ![nodes[calls[i].node].item] =
                                                      superclassIn(a)]
       ELSE \E a \in Answers :
                /\ ResolveDone(i, a)
                /\ UNCHANGED superclass
    /\ UNCHANGED <<roots, view, modelId, prefetch, disposed>>
    /\ UNCHANGED ctlVars

\* The query of calls[i] fails (executeCommand rejects): no handler catches it, the
\* await throws in _resolveTypes / getClassViewRoot and the entry point rejects
Fail(i) ==
    /\ i \in DOMAIN calls
    /\ calls' = RemoveAt(calls, i)
    /\ last' = [Step(calls[i].op, calls[i].start, "resume") EXCEPT
                  !.threw = TRUE,
                  !.outcome = "failure",
                  !.steps = calls[i].steps]
    /\ UNCHANGED <<nodes, roots, view, modelId, prefetch, disposed, superclass, shown>>
    /\ UNCHANGED ctlVars

\* remove(item), reached from removeTypeItem through TypeItem.remove
Remove(item) ==
    /\ ~disposed /\ item \in shown
    /\ IF hasSiblings(item)
       THEN /\ IF isInRoot(item)
               THEN /\ roots' = del(roots, item)
                    /\ UNCHANGED nodes
               ELSE /\ nodes' = [nodes EXCEPT
                          ![nodes[item].parent].children = del(@, item),
                          ![nodes[item].parent].lastResult =
                              IF nodes[nodes[item].parent].answered THEN del(@, item) ELSE @,
                          ![nodes[item].parent].removed =
                              IF includes(nodes[nodes[item].parent].children, item)
                              THEN @ \cup {nodes[item].item} ELSE @]
                    /\ UNCHANGED roots
            /\ last' = [Step("remove", item, "return") EXCEPT
                          !.hit = IF isInRoot(item) THEN TRUE
                                  ELSE includes(nodes[nodes[item].parent].children, item),
                          !.fired = <<removePayload(item)>>,
                          !.emitted = <<modelListener(removePayload(item))>>]
       ELSE /\ last' = Step("remove", item, "return")
            /\ UNCHANGED <<nodes, roots>>
    /\ UNCHANGED <<view, modelId, prefetch, disposed, calls, superclass, shown>>
    /\ UNCHANGED ctlVars

\* The tree's navigation commands
Next(from) ==
    /\ ~disposed /\ from \in shown
    /\ last' = [Step("next", from, "return") EXCEPT !.value = <<next(from)>>]
    /\ UNCHANGED modelVars
    /\ UNCHANGED ctlVars

Previous(from) ==
    /\ ~disposed /\ from \in shown
    /\ last' = [Step("previous", from, "return") EXCEPT !.value = <<previous(from)>>]
    /\ UNCHANGED modelVars
    /\ UNCHANGED ctlVars

\* The tree asks for the highlights of a shown item in the document uri
GetEditorHighlights(item, uri) ==
    /\ ~disposed /\ item \in shown
    /\ last' = [Step("getEditorHighlights", item, "return") EXCEPT
                  !.value = getEditorHighlights(item, uri),
                  !.uri = <<uri>>]
    /\ UNCHANGED modelVars
    /\ UNCHANGED ctlVars

\* dispose(): the emitter and the model listener are disposed; cancelTokenSource is
\* left alone
Dispose ==
    /\ ~disposed /\ modelId # 0
    /\ disposed' = TRUE
    /\ last' = Step("dispose", 0, "return")
    /\ UNCHANGED <<nodes, roots, view, modelId, prefetch, calls, superclass, shown>>
    /\ UNCHANGED ctlVars

\* ---------------------------------------------------------------- register
\* What a request can change: the context's view and class-view support, the tree's input
session == [view |-> ctxView, support |-> classViewSupport, input |-> input]

\* The await of typeHierarchy.prepare; as history, the session at the request and
\* whether no other request has acted since
Prepare(op, anchor) == [op |-> op, anchor |-> anchor, before |-> session, alone |-> TRUE]

Disturbed(pending) == [j \in DOMAIN pending |-> [pending[j] EXCEPT !.alone = FALSE]]

\* The answers of typeHierarchy.prepare: absent (undefined), or types the service knows
PrepareAnswers ==
    {[absent |-> TRUE, items |-> <<>>]}
    \cup {[absent |-> FALSE, items |-> s] : s \in SeqsUpTo(DOMAIN superclass, MaxRoots)}

\* The language of the active editor's document
LanguageIds == {"java", "typescript"}

\* isClassViewSupported(): classViewLanguages.includes(languageId)
isClassViewSupported(languageId) == languageId = "java"

\* tree.setInput(new TypesTreeInput(location, typeHierarchyContext, items)): the tree
\* takes the input and has it resolve(), in the view v the context holds. For items,
\* resolve() builds a model and a provider, which replace the session shown; without
\* items it returns nothing, and the session shown stays or goes
setInput(items, v) ==
    /\ input' = [set |-> TRUE, items |-> items]
    /\ IF Len(items) > 0
       THEN /\ Len(nodes) + Len(items) <= MaxNodes
            /\ nodes' = nodes \o NewRoots(modelId + 1, items)
            /\ roots' = [i \in 1..Len(items) |-> Len(nodes) + i]
            /\ view' = v
            /\ modelId' = modelId + 1
            /\ disposed' = FALSE
            /\ shown' = {}
       ELSE /\ \E stays \in BOOLEAN :
                IF stays \/ modelId = 0
                THEN UNCHANGED <<disposed, shown>>
                ELSE disposed' = TRUE /\ shown' = {}
            /\ UNCHANGED <<nodes, roots, view, modelId>>
    /\ UNCHANGED <<prefetch, calls, superclass>>

\* showTypeHierarchy(): with an active editor, typeHierarchy.prepare is awaited
ShowTypeHierarchy ==
    /\ \E activeTextEditor \in BOOLEAN :
          IF activeTextEditor
          THEN /\ Len(prepares) < MaxPrepares
               /\ prepares' = Append(prepares, Prepare("showTypeHierarchy", 0))
               /\ last' = Step("showTypeHierarchy", 0, "await")
          ELSE /\ last' = Step("showTypeHierarchy", 0, "return")
               /\ UNCHANGED prepares
    /\ UNCHANGED modelVars
    /\ UNCHANGED <<ctxView, classViewSupport, input>>

\* showTypeHierarchy resumes with answer a, the active editor's language being languageId
ShowTypeHierarchyDone(i, a, languageId) ==
    LET c == prepares[i]
        items == a.items
        classViewEnabled == isClassViewSupported(languageId) /\ NoInterface(items)
    IN  IF a.absent \/ Len(items) = 0
        THEN /\ prepares' = RemoveAt(prepares, i)
             /\ last' = [Step("showTypeHierarchy", 0, "resume") EXCEPT
                           !.outcome = IF a.absent THEN "absent" ELSE "empty",
                           !.before = <<c.before>>,
                           !.alone = c.alone]
             /\ UNCHANGED modelVars
             /\ UNCHANGED <<ctxView, classViewSupport, input>>
        ELSE /\ ctxView' = IF classViewEnabled THEN "Class" ELSE ctxView
             /\ classViewSupport' = classViewEnabled
             /\ setInput(items, ctxView')
             /\ prepares' = Disturbed(RemoveAt(prepares, i))
             /\ last' = [Step("showTypeHierarchy", 0, "resume") EXCEPT
                           !.outcome = "answer",
                           !.answer = items,
                           !.before = <<c.before>>,
                           !.alone = c.alone]

\* setTypesView(view, anchor): anchor is a TypeItem of the tree, or 0 for anything else
SetTypesView(v, anchor) ==
    /\ anchor \in shown \cup {0}
    /\ ctxView' = v
    /\ IF anchor # 0
       THEN /\ Len(prepares) < MaxPrepares
            /\ prepares' = Append(Disturbed(prepares), Prepare("setTypesView", anchor))
            /\ last' = Step("setTypesView", anchor, "await")
            /\ UNCHANGED modelVars
            /\ UNCHANGED <<classViewSupport, input>>
       ELSE /\ prepares' = Disturbed(prepares)
            /\ last' = Step("setTypesView", 0, "return")
            /\ UNCHANGED classViewSupport
            /\ IF input.set
               THEN setInput(input.items, v)
               ELSE UNCHANGED modelVars /\ UNCHANGED input

\* setTypesView resumes with answer a
SetTypesViewDone(i, a) ==
    LET c == prepares[i]
        items == a.items
        classViewEnabled == NoInterface(items)
    IN  IF a.absent
        THEN /\ prepares' = RemoveAt(prepares, i)
             /\ last' = [Step("setTypesView", c.anchor, "resume") EXCEPT
                           !.outcome = "absent",
                           !.before = <<c.before>>,
                           !.alone = c.alone]
             /\ UNCHANGED modelVars
             /\ UNCHANGED <<ctxView, classViewSupport, input>>
        ELSE /\ classViewSupport' = classViewEnabled
             /\ setInput(items, ctxView)
             /\ prepares' = Disturbed(RemoveAt(prepares, i))
             /\ last' = [Step("setTypesView", c.anchor, "resume") EXCEPT
                           !.outcome = IF Len(items) = 0 THEN "empty" ELSE "answer",
                           !.answer = items,
                           !.before = <<c.before>>,
                           !.alone = c.alone]
             /\ UNCHANGED ctxView

\* The service answers the typeHierarchy.prepare query of prepares[i]
PrepareDone(i) ==
    /\ i \in DOMAIN prepares
    /\ \E a \in PrepareAnswers :
          IF prepares[i].op = "showTypeHierarchy"
          THEN \E languageId \in LanguageIds : ShowTypeHierarchyDone(i, a, languageId)
          ELSE SetTypesViewDone(i, a)

\* The typeHierarchy.prepare query of prepares[i] fails: the request rejects
PrepareFail(i) ==
    /\ i \in DOMAIN prepares
    /\ prepares' = RemoveAt(prepares, i)
    /\ last' = [Step(prepares[i].op, prepares[i].anchor, "resume") EXCEPT
                  !.threw = TRUE,
                  !.outcome = "failure",
                  !.before = <<prepares[i].before>>,
                  !.alone = prepares[i].alone]
    /\ UNCHANGED modelVars
    /\ UNCHANGED <<ctxView, classViewSupport, input>>

NodeIds == 1..Len(nodes)

Next_ ==
    \/ GetChildrenTop /\ UNCHANGED sink
    \/ \E element \in NodeIds : GetChildren(element) /\ UNCHANGED sink
    \/ \E element \in NodeIds : GetTreeItem(element) /\ UNCHANGED sink
    \/ \E i \in 1..MaxCalls : Complete(i) /\ UNCHANGED sink
    \/ \E i \in 1..MaxCalls : Fail(i) /\ UNCHANGED sink
    \/ \E item \in NodeIds : Remove(item) /\ UNCHANGED sink
    \/ \E from \in NodeIds : Next(from) /\ UNCHANGED sink
    \/ \E from \in NodeIds : Previous(from) /\ UNCHANGED sink
    \/ Dispose /\ UNCHANGED sink

\* Every view, one type known to the service
Init == InitWith(Views, {1}, BOOLEAN)

\* Class view, the service knowing two classes and an interface; without the
\* navigation commands, which change nothing of the model
InitClass == InitWith({"Class"}, Items, {FALSE})

NextClass ==
    \/ GetChildrenTop /\ UNCHANGED sink
    \/ \E element \in NodeIds : GetChildren(element) /\ UNCHANGED sink
    \/ \E element \in NodeIds : GetTreeItem(element) /\ UNCHANGED sink
    \/ \E i \in 1..MaxCalls : Complete(i) /\ UNCHANGED sink
    \/ \E i \in 1..MaxCalls : Fail(i) /\ UNCHANGED sink
    \/ \E item \in NodeIds : Remove(item) /\ UNCHANGED sink
    \/ Dispose /\ UNCHANGED sink

Spec == Init /\ [][Next_]_vars
SpecClass == InitClass /\ [][NextClass]_vars

\* Supertype or Subtype view over the three types, the roots shown: navigation,
\* highlights and removal
InitNav == InitWith({"Supertype", "Subtype"}, Items, {FALSE})

NextNav ==
    \/ GetChildrenTop /\ UNCHANGED sink
    \/ \E from \in NodeIds : Next(from) /\ UNCHANGED sink
    \/ \E from \in NodeIds : Previous(from) /\ UNCHANGED sink
    \/ \E item \in NodeIds, uri \in Uris : GetEditorHighlights(item, uri) /\ UNCHANGED sink
    \/ \E item \in NodeIds : Remove(item) /\ UNCHANGED sink

SpecNav == InitNav /\ [][NextNav]_vars

\* ------------------------------------------------------- the display sink
\* The elements the emitter was fired with in the step, as the sink sees them
Signalled(step) == SeqToSet(step.emitted) \ {0}

\* The tree shows the input: it calls getChildren() and renders the roots it gets
SinkShow ==
    /\ ~sink.started
    /\ GetChildrenTop
    /\ sink' = [started |-> TRUE, refresh |-> SeqToSet(last'.value), expand |-> {}]

\* The sink answers the change signal of element: it asks for its display state again,
\* and finds it expanded or not
SinkRefresh(element) ==
    /\ element \in sink.refresh
    /\ GetTreeItem(element)
    /\ sink' = [sink EXCEPT
                  !.refresh = (@ \ {element}) \cup Signalled(last'),
                  !.expand = IF last'.state = "Expanded" THEN @ \cup {element} ELSE @]

\* The sink calls getChildren on an element it found expanded
SinkExpand(element) ==
    /\ element \in sink.expand
    /\ GetChildren(element)
    /\ sink' = [sink EXCEPT
                  !.expand = @ \ {element},
                  !.refresh = @ \cup Signalled(last')]

\* A query answers
SinkComplete(i) ==
    /\ Complete(i)
    /\ sink' = [sink EXCEPT !.refresh = @ \cup Signalled(last')]

\* Supertype or Subtype view, the service knowing a class and an interface; the sink
\* alone acts, and every query is answered
InitSink == InitWith({"Supertype", "Subtype"}, {1, 3}, BOOLEAN)

NextSink ==
    \/ SinkShow
    \/ \E element \in NodeIds : SinkRefresh(element)
    \/ \E element \in NodeIds : SinkExpand(element)
    \/ \E i \in 1..MaxCalls : SinkComplete(i)

SpecSink == InitSink /\ [][NextSink]_vars /\ WF_vars(NextSink)

\* After register(): the context in Supertype view without class-view support, no
\* input, lazy expansion; the service knowing a class and an interface
InitCtl ==
    /\ nodes = <<>>
    /\ roots = <<>>
    /\ view = "Supertype"
    /\ modelId = 0
    /\ prefetch = FALSE
    /\ disposed = FALSE
    /\ calls = <<>>
    /\ superclass = [i \in {1, 3} |-> -1]
    /\ shown = {}
    /\ last = Step("register", 0, "return")
    /\ ctxView = "Supertype"
    /\ classViewSupport = FALSE
    /\ input = [set |-> FALSE, items |-> <<>>]
    /\ prepares = <<>>
    /\ sink = NoSink

NextCtl ==
    \/ ShowTypeHierarchy /\ UNCHANGED sink
    \/ \E v \in Views, anchor \in {0} \cup NodeIds : SetTypesView(v, anchor) /\ UNCHANGED sink
    \/ \E i \in 1..MaxPrepares : PrepareDone(i) /\ UNCHANGED sink
    \/ \E i \in 1..MaxPrepares : PrepareFail(i) /\ UNCHANGED sink
    \/ GetChildrenTop /\ UNCHANGED sink
    \/ \E i \in 1..MaxCalls : Complete(i) /\ UNCHANGED sink
    \/ Dispose /\ UNCHANGED sink

SpecCtl == InitCtl /\ [][NextCtl]_vars

\* ===================================================================== claims
\* from has no resolved non-empty children and occurs in its sibling array
HasNoChildren(from) == ~(nodes[from].resolved /\ Len(nodes[from].children) > 0)

SiblingArray(from) ==
    IF includes(roots, from) THEN roots
    ELSE IF nodes[from].parent # 0 /\ nodes[nodes[from].parent].resolved
         THEN nodes[nodes[from].parent].children
         ELSE <<>>

\* The sibling delta places further, wrapping modulo the length of the array
Wrapped(from, delta) ==
    LET A == SiblingArray(from)
    IN  A[((indexOf(A, from) + delta + Len(A)) % Len(A)) + 1]

\* C1: sibling navigation wraps around. Whenever next or previous has been applied to a
\* node without resolved non-empty children that sits at index i of its sibling array A
\* (roots, or its parent's children), the result is A[(i+1) mod |A|], resp. A[(i-1) mod |A|].
C1_SiblingNavigationWraps ==
    (/\ last.op \in {"next", "previous"}
     /\ HasNoChildren(last.node)
     /\ includes(SiblingArray(last.node), last.node))
    => last.value = <<Wrapped(last.node, IF last.op = "next" THEN 1 ELSE -1)>>

\* C2: a failed query is seen by the caller of getTypeChildren as an empty child sequence.
\* Whenever a getChildren / getTreeItem call resumes from a query that failed, it has
\* not thrown, it returns [], and the node's children are cached as [].
C2_QueryFailureIsEmpty ==
    (/\ last.op \in {"getChildren", "getTreeItem"}
     /\ last.phase = "resume"
     /\ last.outcome = "failure")
    => /\ ~last.threw
       /\ last.value = <<>>
       /\ nodes[last.node].resolved
       /\ nodes[last.node].children = <<>>

\* C3: removing a node that is in no resolvable sibling array (not in roots, not in its
\* parent's cached children) is a silent no-op: roots and all nodes are unchanged and no
\* change event is fired or emitted.
C3_AbsentRemoveIsSilent ==
    [][(last'.op = "remove" /\ ~last'.hit)
       => /\ roots' = roots
          /\ nodes' = nodes
          /\ last'.fired = <<>>
          /\ last'.emitted = <<>>]_vars

\* array without e, the other elements in their order
Without(array, e) == SelectSeq(array, LAMBDA x : x # e)

C6_DiscardedModelCachesNothing ==
    [][\A n \in DOMAIN nodes :
          (~Live(nodes[n].model) /\ ~nodes[n].resolved) => ~nodes'[n].resolved]_vars

\* The step just taken is a step of the class-view root materialization that started
\* at root last.node: getClassViewRoot resumed with the answer last.answer
ClimbResumed == last.op = "getClassViewRoot" /\ last.outcome \in {"absent", "answer"}

NoClassIn(items) == \A i \in DOMAIN items : ItemKind[items[i]] # Class

\* C7: class-view root materialization builds a strictly linear chain. A step that
\* synthesizes a node takes the first class-kind item of the answer, in the answer's
\* order; the new node is parentless, has the node asked about as its sole cached child
\* and expand = TRUE, and no existing node's children change (no fan-out); the call
\* returns the node asked about last, a parentless one, exactly when the answer is
\* absent, empty or without a class-kind item.
C7_ClassChainIsLinear ==
    [][(last'.op = "getClassViewRoot" /\ last'.outcome \in {"absent", "answer"})
       => IF last'.phase = "await"
          THEN LET new == last'.value[1]
                   answer == last'.answer
               IN  /\ new = Len(nodes) + 1 /\ Len(nodes') = new
                   /\ \E i \in DOMAIN answer :
                        /\ answer[i] = nodes'[new].item
                        /\ ItemKind[answer[i]] = Class
                        /\ NoClassIn(SubSeq(answer, 1, i - 1))
                   /\ nodes'[new].parent = 0
                   /\ nodes'[new].resolved /\ Len(nodes'[new].children) = 1
                   /\ nodes'[new].expand
                   /\ LET below == nodes'[new].children[1]
                      IN  /\ below \in DOMAIN nodes
                          /\ nodes[below].expand
                          /\ nodes'[below].parent = new
                          /\ \E c \in SeqToSet(calls) :
                                c.op = "getClassViewRoot" /\ c.node = below
                   /\ \A n \in DOMAIN nodes :
                        /\ nodes'[n].children = nodes[n].children
                        /\ nodes'[n].resolved = nodes[n].resolved
          ELSE /\ last'.phase = "resume"
               /\ NoClassIn(last'.answer)
               /\ nodes' = nodes
               /\ LET top == last'.value[1]
                  IN  /\ nodes[top].parent = 0
                      /\ nodes[top].expand
                      /\ \E c \in SeqToSet(calls) :
                            c.op = "getClassViewRoot" /\ c.node = top]_vars

\* The materialization from a class X whose supertypes were [interface, class Y] has
\* returned the node synthesized for Y, X being its only child
C7_Witness ==
    /\ ClimbResumed /\ last.phase = "resume" /\ last.steps = 2
    /\ LET top == last.value[1]
       IN  /\ nodes[top].made = -1
           /\ nodes[top].children = <<last.node>>
           /\ nodes[top].expand
           /\ nodes[last.node].parent = top

\* The length of the chain item, superclass[item], ... as far as the service has
\* answered: the number of types on it when it ends in a type without a class-kind
\* supertype, 0 when it runs into a cycle, -1 when it reaches a type not asked about
RECURSIVE ChainLength(_, _)
ChainLength(item, seen) ==
    IF superclass[item] = -1 THEN -1
    ELSE IF superclass[item] = 0 THEN Cardinality(seen) + 1
    ELSE IF superclass[item] \in seen \cup {item} THEN 0
    ELSE ChainLength(superclass[item], seen \cup {item})

\* C8: class-view root materialization ends exactly when the chain of first class-kind
\* supertypes ends. A call that has returned has made as many queries as the chain from
\* its root is long, and that chain is finite (on a cycle it never returns); a pending
\* call has made one query per type of the chain so far, no more than a finite chain
\* is long.
C8_ClimbFollowsTheChain ==
    /\ (ClimbResumed /\ last.phase = "resume")
       => /\ ChainLength(nodes[last.node].item, {}) > 0
          /\ last.steps = ChainLength(nodes[last.node].item, {})
    /\ \A i \in DOMAIN calls :
          calls[i].op = "getClassViewRoot"
          => LET length == ChainLength(nodes[calls[i].start].item, {})
             IN  /\ length > 0 => calls[i].steps <= length
                 /\ length = 0 => calls[i].steps <= MaxNodes

\* A materialization has returned after two queries
C8_Witness ==
    /\ ClimbResumed /\ last.phase = "resume"
    /\ last.steps = 2
    /\ ChainLength(nodes[last.node].item, {}) = 2
    /\ last.value # <<last.node>>

\* The display states the claims speak of
Leaf == "None"
Collapsed == "Collapsed"
Expanded == "Expanded"

\* C9 as stated: with prefetch off, getTreeItem reports leaf for every node whose
\* children are resolved to zero results and collapsed for every node never queried, and
\* issues no query.
C9_EmptyIsLeafUnresolvedIsCollapsed ==
    [][(last'.op = "getTreeItem" /\ ~prefetch)
       => LET element == last'.node
          IN  /\ last'.phase = "return" /\ calls' = calls /\ nodes' = nodes
              /\ (nodes[element].resolved /\ nodes[element].children = <<>>)
                 => last'.state = Leaf
              /\ ~nodes[element].resolved => last'.state = Collapsed]_vars

\* The nodes getTreeItem displays pre-expanded
PreExpanded(element) ==
    includes(roots, element) \/ (view = "Class" /\ nodes[element].expand)

\* C9 as amended: with prefetch off, getTreeItem issues no query; it reports expanded for
\* every root and every Class-view node flagged expand, and for every other node leaf
\* when its children are resolved to zero results and collapsed when never queried.
C9_DisplayStates ==
    [][(last'.op = "getTreeItem" /\ ~prefetch)
       => LET element == last'.node
          IN  /\ last'.phase = "return" /\ calls' = calls /\ nodes' = nodes
              /\ PreExpanded(element) => last'.state = Expanded
              /\ (~PreExpanded(element) /\ nodes[element].resolved
                    /\ nodes[element].children = <<>>)
                 => last'.state = Leaf
              /\ (~PreExpanded(element) /\ ~nodes[element].resolved)
                 => last'.state = Collapsed]_vars

\* A child resolved to zero results has been reported a leaf
C9_Witness ==
    /\ last.op = "getTreeItem" /\ ~prefetch
    /\ last.state = Leaf
    /\ nodes[last.node].made > 0
    /\ nodes[last.node].resolved /\ nodes[last.node].children = <<>>

\* C10: a request whose prepare query returns an empty or absent result is abandoned.
\* When showTypeHierarchy or setTypesView with an anchor resumes with such a result, no
\* other request having acted meanwhile, the tree's input and the context's view and
\* class-view support are what they were when the request was made.
C10_EmptyPrepareAbandons ==
    (/\ last.op \in {"showTypeHierarchy", "setTypesView"}
     /\ last.phase = "resume"
     /\ last.outcome \in {"absent", "empty"}
     /\ last.alone)
    => last.before = <<session>>

\* C11: descend before sibling. For every node with at least one resolved child,
\* next(from) is its first child and previous(from) is its last child, whether from is a
\* root or not and wherever it stands among its siblings.
C11_DescendBeforeSibling ==
    (last.op \in {"next", "previous"} /\ ~HasNoChildren(last.node))
    => LET children == nodes[last.node].children
       IN  last.value = <<IF last.op = "next" THEN children[1] ELSE children[Len(children)]>>

\* previous(from) has returned the second of the two children of a root that has a
\* sibling array of its own to move in
C11_Witness ==
    /\ last.op = "previous"
    /\ includes(roots, last.node)
    /\ Len(nodes[last.node].children) = 2
    /\ last.value = <<nodes[last.node].children[2]>>
    /\ last.value # <<nodes[last.node].children[1]>>

\* C12: getEditorHighlights(node, uri) returns the one-element sequence of the node's
\* selection range whenever uri denotes the same resource as the node's item URI, and
\* the empty sequence otherwise.
C12_HighlightsOfSameResource ==
    last.op = "getEditorHighlights"
    => LET item == nodes[last.node].item
           uri == last.uri[1]
       IN  last.value = IF uri.value = ItemUri[item]
                        THEN <<ItemSelectionRange[item]>>
                        ELSE <<>>

\* s is lexicographically smaller than t: a proper prefix of it, or smaller at the first
\* position where they differ
LexLess(s, t) ==
    \/ Len(s) < Len(t) /\ SubSeq(t, 1, Len(s)) = s
    \/ \E k \in 1..Len(s) :
          /\ k <= Len(t)
          /\ SubSeq(s, 1, k - 1) = SubSeq(t, 1, k - 1)
          /\ s[k] < t[k]

\* The step just taken resolved children from an answer of the service
FreshlyResolved ==
    /\ last.op \in {"getChildren", "getTreeItem"}
    /\ last.phase = "resume"
    /\ last.outcome = "answer"

\* C13: sibling ordering. In every freshly resolved children sequence, of two items of
\* different kinds the one whose kind has the lexicographically greater string form
\* comes first, and of two items of the same kind the one with the smaller name comes
\* first.
C13_SiblingOrdering ==
    FreshlyResolved
    => \A i, j \in DOMAIN last.value :
          i < j
          => LET A == nodes[last.value[i]].item
                 B == nodes[last.value[j]].item
             IN  IF ItemKind[A] # ItemKind[B]
                 THEN LexLess(toString(ItemKind[B]), toString(ItemKind[A]))
                 ELSE ~LexLess(ItemName[B], ItemName[A])

\* A class and an interface have been resolved as siblings: the class, kind "4", stands
\* before the interface, kind "10"
C13_Witness ==
    /\ FreshlyResolved
    /\ Len(last.value) = 2
    /\ ItemKind[nodes[last.value[1]].item] = Class
    /\ ItemKind[nodes[last.value[2]].item] = Interface

\* The awaits of _resolveTypes for node n
ResolveCalls(pending, n) ==
    {i \in DOMAIN pending : pending[i].node = n /\ pending[i].op \in {"getChildren", "getTreeItem"}}

\* C14: single query, single write. Under every interleaving of resolve calls on one
\* node, at most one query for it is in flight, none is issued once its children are
\* resolved, and a fetch that completes never puts another sequence of nodes in the
\* place of children already resolved.
C14_ResolveWritesOnce ==
    [][\A n \in DOMAIN nodes :
          /\ Cardinality(ResolveCalls(calls', n)) <= 1
          /\ (nodes[n].resolved /\ last'.phase = "resume")
             => nodes'[n].resolved /\ nodes'[n].children = nodes[n].children]_vars

\* C15: removal is never undone by a fetch. Once remove(c) has deleted child c from its
\* parent's children, no later step puts c, or another node wrapping the item of c, into
\* the parent's children: a node of a removed item is among the children after a step
\* only if it was among them before it.
C15_RemovalIsNotUndone ==
    [][\A p \in DOMAIN nodes :
          \A k \in DOMAIN nodes'[p].children :
             LET c == nodes'[p].children[k]
             IN  nodes'[c].item \in nodes'[p].removed
                 => includes(nodes[p].children, c)]_vars

\* The parent the constructor of node n was given: undefined (0) for a root and for a
\* node getClassViewRoot constructed
GivenParent(n) == IF nodes[n].made = -1 THEN 0 ELSE nodes[n].made

\* C16: in every reachable state, in every view, each node of the model's root sequence
\* has no parent, and the parent of every other node is the one it was constructed with.
C16_ParentsAreFixed ==
    \A n \in DOMAIN nodes :
       IF includes(roots, n)
       THEN nodes[n].parent = 0
       ELSE nodes[n].parent = GivenParent(n)

\* The step just taken is a step of a getChildren call: the tree's own, top-level or on
\* an element, or the one getTreeItem makes on prefetch
InGetChildren ==
    \/ last.op \in {"getChildren", "getClassViewRoot"}
    \/ last.op = "getTreeItem" /\ (last.phase \in {"await", "resume"} \/ last.hit)

\* The call has returned the children last.value of the element last.node
ReturnedChildren ==
    /\ last.op \in {"getChildren", "getTreeItem"}
    /\ last.phase \in {"return", "resume"}
    /\ ~last.threw
    /\ last.node # 0

\* C17: getChildren(node) emits a change signal scoped to node exactly when node is
\* given and the children it returns are empty: one signal for node, for that call; a
\* top-level call, a call returning children, and a call still waiting or failed emit
\* none.
C17_GetChildrenSignalsEmpty ==
    InGetChildren
    => last.emitted = IF ReturnedChildren /\ last.value = <<>>
                      THEN <<last.node>>
                      ELSE <<>>

\* A query for the children of an element has answered with none, and the one signal
\* for the element was emitted
C17_Witness ==
    /\ InGetChildren /\ ReturnedChildren
    /\ last.phase = "resume"
    /\ last.value = <<>>
    /\ last.emitted = <<last.node>>

\* Nothing is pending: no change signal to answer, no getChildren call to make, no query
\* in flight
Quiescent == sink.refresh = {} /\ sink.expand = {} /\ calls = <<>>

\* C18: refresh quiescence. With a display sink that answers a node-scoped change signal
\* by asking for the node's display state again and calling getChildren on it when it
\* displays expanded, every query being answered and no user command given, the system
\* comes to rest: from some state on nothing is pending.
C18_RefreshQuiesces == <>[]Quiescent

\* C19: parent/child link consistency. In every reachable state, for every node p ever
\* created, every node among the cached children of p has p as its parent.
C19_ChildrenPointBack ==
    \A p \in DOMAIN nodes :
       nodes[p].resolved
       => \A k \in DOMAIN nodes[p].children : nodes[nodes[p].children[k]].parent = p

\* C20: whenever a tree input is installed with the active view Class, class-view
\* support is true and none of its items is interface-kind; and a top-level getChildren
\* on a Class-view model with roots never returns the empty sequence.
C20_ClassViewInputHasClasses ==
    [][/\ (modelId' # modelId /\ view' = "Class")
          => classViewSupport' /\ NoInterface(input'.items)
       /\ (last'.op = "getChildren" /\ last'.node = 0 /\ last'.phase = "return"
             /\ view = "Class" /\ roots # <<>>)
          => last'.value # <<>>]_vars

====
